---- MODULE Spec2Model ----
(***************************************************************************)
(* The teleoperation user-study session of robosuite/demos/user_study.py:  *)
(* the session loop over (task, robot) pairs, the control tick (device     *)
(* sample, grasp edge, action assembly, simulation step, contact scan,     *)
(* trial evaluation) and the trial log.                                    *)
(*                                                                         *)
(* One action models one statement group of the script; pc is the place    *)
(* of the single thread of control.  Calls into the simulation, the device *)
(* and the viewer are external: their results are inputs drawn from small  *)
(* sets, and the calls the error taxonomy names (device sampling, the      *)
(* simulation step, the contact scan, the success predicate) may raise.    *)
(***************************************************************************)
EXTENDS Integers, Sequences, FiniteSets, TLC

(* ------------------------------ bounds --------------------------------- *)

\* Largest env.action_dim an environment reports.
MaxDim == 3

\* Size of the raw action input2action returns.
RawSize == 2

\* Most contacts in one step's contact list (env.sim.data.ncon).
MaxCon == 1

\* Most trial rows written in one session.
MaxRows == 2

(* ------------------------- program constants --------------------------- *)

\* time.sleep(3) after a terminal trial.
DwellSeconds == 3

TrainTask == "Train"

\* tasks, before the shuffle.
TaskList == <<"ConstrainedReorient", "Bookshelf", "DrawerPick">>

\* robots, before the shuffle.
RobotList == <<"Panda", "PandaWrist", "PandaSSLIM">>

StudyTasks == {TaskList[i] : i \in 1..Len(TaskList)}

\* links2check: the robot link and gripper geometries.
links2check ==
  {"robot0_g0_col", "robot0_g1_col", "robot0_g2_col", "robot0_g3_col", "robot0_g4_col",
   "robot0_g5_col", "robot0_link7_collision", "robot0_link6_collision",
   "gripper0_hand_collision"}

\* Geometry names env.sim.model.geom_id2name can return: two of links2check, one
\* that is not.
GeomNames == {"robot0_g0_col", "gripper0_hand_collision", "table_collision"}

\* Values of the gripper intent input2action returns.
GraspVals == {-1, 1}

\* Values --arm can hold (type=str): the two supported ones and another.
ArmChoices == {"right", "left", "bimanual"}

\* Values of the camera option (store_true): no statement reads its attribute, so
\* only the default is explored.
ToggleChoices == {FALSE}

\* Number of cameras of the environment (num_cam, line 306).
NumCam == 2

\* A faulty variant of the PandaWrist model: the damping of the seven arm joints only.
PandaWristArmDamping ==
  [damping |-> <<10, 10, 10, 10, 10, 1, 1>>,
   init_qpos |-> <<"0", "-pi/2.5", "0.00", "-pi/2.5-pi/2.2", "0.00", "pi-0.4", "pi/4",
                   "pi/2.5", "0">>,
   default_gripper |-> "SSLIMHand",
   arm_type |-> "single"]

\* class PandaWrist: the joint damping set in __init__ (in hundredths) and the
\* properties init_qpos (its entries as written), default_gripper and arm_type.
PandaWrist ==
  [damping |-> <<10, 10, 10, 10, 10, 1, 1, 1, 1>>,
   init_qpos |-> <<"0", "-pi/2.5", "0.00", "-pi/2.5-pi/2.2", "0.00", "pi-0.4", "pi/4",
                   "pi/2.5", "0">>,
   default_gripper |-> "SSLIMHand",
   arm_type |-> "single"]

\* suite.make(robots=robot): the robot model constructed for the environment; the
\* models of the other robots are not looked into.
MakeRobotModel(r) == IF r = "PandaWrist" THEN <<PandaWrist>> ELSE <<>>

\* column_labels
HeaderRow == [task |-> "task", robot |-> "robot"]

(* ---------------------------- pure helpers ----------------------------- *)

\* np.random.shuffle: the orders a shuffle of a three-element list can give.
Perm3 == << <<1, 2, 3>>, <<1, 3, 2>>, <<2, 1, 3>>, <<2, 3, 1>>, <<3, 1, 2>>, <<3, 2, 1>> >>

\* A faulty variant of the shuffle: a draw with replacement, the last entry repeats
\* the first.
ShuffleWithRepeats(lst, r) == [i \in 1..3 |-> lst[Perm3[r][IF i = 3 THEN 1 ELSE i]]]

\* np.random.shuffle(lst) when the generator is in state r: the generator is a
\* deterministic stream, its seed drawn when the script starts.
Shuffle(lst, r) == [i \in 1..3 |-> lst[Perm3[r][i]]]

\* The state of the generator after a shuffle.
NextRng(r) == (r % Len(Perm3)) + 1

\* np.zeros(n)
Zeros(n) == [i \in 1..n |-> 0]

\* The raw action of input2action: RawSize distinct non-zero entries.
RawAction == [i \in 1..RawSize |-> i]

\* argparse: the attribute a namespace holds for an option is the option's name
\* without the leading dashes and with "-" replaced by "_".
HasAttr(ns, name) == name \in DOMAIN ns

\* A faulty variant of the press test: a previous intent of zero counts as released.
GraspPressedFromRest(last, g) == last <= 0 /\ 0 < g

\* last_grasp < 0 < grasp
GraspPressed(last, g) == last < 0 /\ 0 < g

\* "left" if args.arm == "right" else "right"
OtherArm(arm) == IF arm = "right" THEN "left" ELSE "right"

\* A faulty variant of the assembly: the zeros always follow the raw action.
AssembleActionPadsRight(a, dim, arm) ==
  LET rem == dim - Len(a) IN
  IF rem > 0
    THEN IF arm \in {"right", "left"} THEN a \o Zeros(rem) ELSE a
    ELSE IF rem < 0 THEN SubSeq(a, 1, dim)
    ELSE a

\* A faulty variant of the assembly: an action that is too long is not trimmed.
AssembleActionNoTrim(a, dim, arm) ==
  LET rem == dim - Len(a) IN
  IF rem > 0
    THEN IF arm = "right" THEN a \o Zeros(rem)
         ELSE IF arm = "left" THEN Zeros(rem) \o a
         ELSE a
    ELSE a

\* Lines 341-358: pad with zeros on the side of the passive arm, or trim.
AssembleAction(a, dim, arm) ==
  LET rem == dim - Len(a) IN
  IF rem > 0
    THEN IF arm = "right" THEN a \o Zeros(rem)
         ELSE IF arm = "left" THEN Zeros(rem) \o a
         ELSE a
    ELSE IF rem < 0 THEN SubSeq(a, 1, dim)
    ELSE a

\* Lines 342-355: the "Unsupported arm" error is printed.
ArmUnsupported(a, dim, arm) == dim - Len(a) > 0 /\ arm \notin {"right", "left"}

\* A faulty variant of the contact test: a contact inside the set is flagged too.
ContactFlaggedEither(con) == con[1] \in links2check \/ con[2] \in links2check

\* Lines 366-368: bool1 or bool2.
ContactFlagged(con) ==
  \/ (con[1] \in links2check /\ con[2] \notin links2check)
  \/ (con[2] \in links2check /\ con[1] \notin links2check)

\* Lines 364-370: the contacts of the list a marker is added for.
ScanContacts(cl) == {i \in 1..Len(cl) : ContactFlagged(cl[i])}

ContactLists == UNION {[1..n -> GeomNames \X GeomNames] : n \in 0..MaxCon}

\* Success levels _check_success returns: 0/1/2 for ConstrainedReorient, a
\* boolean (0/1) for the others.
SuccessLevels(t) == IF t = "ConstrainedReorient" THEN 0..2 ELSE 0..1

DataRows(f) == SelectSeq(f, LAMBDA r : r # HeaderRow)

(* ------------------------------- state --------------------------------- *)

VARIABLES
  rng,           \* the state of numpy's random generator
  args,          \* the parsed argparse namespace: attribute name -> value
  tasks,         \* the task order of the session, "Train" first
  ti,            \* index in tasks of the current task
  robots,        \* the robot order of the current task
  ri,            \* index in robots of the current robot (0: none yet)
  pc,            \* the place of control in the script
  envLive,       \* an environment made by suite.make is not closed yet
  envDim,        \* env.action_dim (0: no environment)
  opened,        \* the number of environments made and not closed
  robotModel,    \* the PandaWrist model of the environment, if it has one
  started,       \* the (task, robot) pairs an environment was made for
  camId,         \* cam_id
  lastGrasp,     \* last_grasp
  grasp,         \* grasp, as input2action returned it
  action,        \* action
  errReported,   \* this tick printed the "Unsupported arm" error
  contacts,      \* env.sim.data.contact of the step being scanned
  markers,       \* the contacts a 'contact' marker was added for
  freshReset,    \* env.reset() ran and no action was assembled since
  ended,         \* trial_ended, as _check_success returned it in this tick
  success,       \* success, as _check_success returned it
  file,          \* the rows of the subject's CSV file
  fileExists,    \* os.path.exists(file_path)
  trialStart,    \* the length of the file when the trial in progress began
  pendingReset,  \* a trial ended and env.reset() has not been called since
  devDirty,      \* a trial ended and device._reset_internal_state() has not run since
  slept,         \* seconds slept in this tick
  last           \* the statement group executed last

sessionVars == <<rng, tasks, ti, robots, ri, started>>
envVars == <<envLive, envDim, opened, robotModel>>
tickVars == <<camId, lastGrasp, grasp, action, errReported, contacts, markers,
              freshReset>>
trialVars == <<ended, success, trialStart, pendingReset, devDirty, slept>>
fileVars == <<file, fileExists>>
vars == <<args, sessionVars, pc, envVars, tickVars, trialVars, fileVars, last>>

task == tasks[ti]
robot == robots[ri]

\* The rows the file holds for the trial in progress.
TrialRows == Len(file) - trialStart

\* Lines 180-191: the namespace parse_args returns.  The camera option is declared
\* as "--toggle-  camera-on-grasp", so its attribute is "toggle_  camera_on_grasp".
Namespace(arm, switch, toggle) ==
  [config |-> "single-arm-opposed", arm |-> arm, switch_on_grasp |-> switch]
    @@ ("toggle_  camera_on_grasp" :> toggle)

\* Lines 180-216: the state when the task loop is entered.
Init ==
  /\ \E arm \in ArmChoices, switch \in BOOLEAN, toggle \in ToggleChoices :
       args = Namespace(arm, switch, toggle)
  /\ \E seed \in 1..Len(Perm3) :
       /\ tasks = <<TrainTask>> \o Shuffle(TaskList, seed)
       /\ rng = NextRng(seed)
  /\ ti = 1
  /\ robots = RobotList
  /\ ri = 0
  /\ pc = "prompt_task"
  /\ envLive = FALSE
  /\ envDim = 0
  /\ opened = 0
  /\ robotModel = <<>>
  /\ started = {}
  /\ camId = 0
  /\ lastGrasp = 0
  /\ grasp = 0
  /\ action = <<>>
  /\ errReported = FALSE
  /\ contacts = <<>>
  /\ markers = {}
  /\ freshReset = FALSE
  /\ ended = FALSE
  /\ success = 0
  /\ fileExists \in BOOLEAN
  /\ file = IF fileExists THEN <<HeaderRow>> ELSE <<>>
  /\ trialStart = Len(file)
  /\ pendingReset = FALSE
  /\ devDirty = FALSE
  /\ slept = 0
  /\ last = "start"

(* --------------------------- session actions --------------------------- *)

\* The locals of a tick that the next tick assigns before it reads them; they are
\* kept at their initial values between ticks.
Forget ==
  /\ grasp' = 0
  /\ action' = <<>>
  /\ errReported' = FALSE
  /\ contacts' = <<>>
  /\ markers' = {}
  /\ success' = 0

\* Lines 220-227: a key other than Escape at the task prompt; the robots are
\* shuffled and the robot loop starts.
PromptTask ==
  /\ pc = "prompt_task"
  /\ robots' = Shuffle(RobotList, rng)
  /\ rng' = NextRng(rng)
  /\ ri' = 1
  /\ pc' = "prompt_robot"
  /\ last' = "PromptTask"
  /\ UNCHANGED <<args, tasks, ti, started, envVars, tickVars, trialVars, fileVars>>

\* A faulty variant of the exit: the prompt is inside the try block and the handler
\* catches SystemExit.
PromptExitSwallowed ==
  /\ pc \in {"prompt_task", "prompt_robot"}
  /\ pc' = "except"
  /\ last' = "PromptExit"
  /\ UNCHANGED <<args, sessionVars, envVars, tickVars, trialVars, fileVars>>

\* Lines 163-169: Escape or a closed window at a prompt: sys.exit().
PromptExit ==
  /\ pc \in {"prompt_task", "prompt_robot"}
  /\ pc' = "exited"
  /\ last' = "PromptExit"
  /\ UNCHANGED <<args, sessionVars, envVars, tickVars, trialVars, fileVars>>

\* Line 229: a key other than Escape at the robot prompt.
PromptRobot ==
  /\ pc = "prompt_robot"
  /\ pc' = "make"
  /\ last' = "PromptRobot"
  /\ UNCHANGED <<args, sessionVars, envVars, tickVars, trialVars, fileVars>>

\* A faulty variant of the set-up: the header row is written for every environment.
MakeAlwaysHeader ==
  /\ pc = "make"
  /\ args' = [args EXCEPT !.config = "None"]
  /\ envLive' = TRUE
  /\ envDim' \in 1..MaxDim
  /\ opened' = opened + 1
  /\ robotModel' = MakeRobotModel(robot)
  /\ started' = started \cup {<<task, robot>>}
  /\ fileExists' = TRUE
  /\ file' = Append(file, HeaderRow)
  /\ trialStart' = Len(file')
  /\ ended' = FALSE
  /\ pc' = "reset"
  /\ last' = "Make"
  /\ UNCHANGED <<rng, tasks, ti, robots, ri, tickVars, success, pendingReset, devDirty,
                 slept>>

\* Lines 231-298: args.config = None, suite.make, the device, and the header row
\* when the file does not exist.
Make ==
  /\ pc = "make"
  /\ args' = [args EXCEPT !.config = "None"]
  /\ envLive' = TRUE
  /\ envDim' \in 1..MaxDim
  /\ opened' = opened + 1
  /\ robotModel' = MakeRobotModel(robot)
  /\ started' = started \cup {<<task, robot>>}
  /\ fileExists' = TRUE
  /\ file' = IF fileExists THEN file ELSE Append(file, HeaderRow)
  /\ trialStart' = Len(file')
  /\ ended' = FALSE
  /\ pc' = "reset"
  /\ last' = "Make"
  /\ UNCHANGED <<rng, tasks, ti, robots, ri, tickVars, success, pendingReset, devDirty,
                 slept>>

\* A faulty variant of the reset: the arm goes back to the default of --arm.
EnvResetDefaultArm ==
  /\ pc = "reset"
  /\ args' = [args EXCEPT !.arm = "right"]
  /\ camId' = 0
  /\ lastGrasp' = 0
  /\ pendingReset' = FALSE
  /\ trialStart' = Len(file)
  /\ ended' = FALSE
  /\ pc' = "start_control"
  /\ freshReset' = TRUE
  /\ last' = "EnvReset"
  /\ UNCHANGED <<sessionVars, envVars, grasp, action, errReported, contacts,
                 markers, success, devDirty, slept, fileVars>>

\* A faulty variant of the reset: last_grasp is initialised before the trial loop
\* only, and a reset keeps it.
EnvResetKeepsGrasp ==
  /\ pc = "reset"
  /\ camId' = 0
  /\ pendingReset' = FALSE
  /\ trialStart' = Len(file)
  /\ ended' = FALSE
  /\ pc' = "start_control"
  /\ freshReset' = TRUE
  /\ last' = "EnvReset"
  /\ UNCHANGED <<args, sessionVars, envVars, lastGrasp, grasp, action, errReported,
                 contacts, markers, success, devDirty, slept, fileVars>>

\* Lines 302-310: env.reset(), cam_id = 0, env.render(), last_grasp = 0.
EnvReset ==
  /\ pc = "reset"
  /\ camId' = 0
  /\ lastGrasp' = 0
  /\ pendingReset' = FALSE
  /\ trialStart' = Len(file)
  /\ ended' = FALSE
  /\ pc' = "start_control"
  /\ freshReset' = TRUE
  /\ last' = "EnvReset"
  /\ UNCHANGED <<args, sessionVars, envVars, grasp, action, errReported, contacts,
                 markers, success, devDirty, slept, fileVars>>

\* Line 313: device.start_control().
StartControl ==
  /\ pc = "start_control"
  /\ pc' = "sample"
  /\ last' = "StartControl"
  /\ UNCHANGED <<args, sessionVars, envVars, tickVars, trialVars, fileVars>>

\* A faulty variant of the loop headers: the next robot's prompt is left out.
NextPairNoPrompt ==
  IF ri < Len(robots)
    THEN [ti |-> ti, ri |-> ri + 1, pc |-> "make"]
    ELSE IF ti < Len(tasks)
      THEN [ti |-> ti + 1, ri |-> 0, pc |-> "prompt_task"]
      ELSE [ti |-> ti, ri |-> ri, pc |-> "done"]

\* The pair after the current one, as the loop headers 218 and 227 choose it.
NextPair ==
  IF ri < Len(robots)
    THEN [ti |-> ti, ri |-> ri + 1, pc |-> "prompt_robot"]
    ELSE IF ti < Len(tasks)
      THEN [ti |-> ti + 1, ri |-> 0, pc |-> "prompt_task"]
      ELSE [ti |-> ti, ri |-> ri, pc |-> "done"]

\* A faulty variant of the handler: the environment is left open.
ExceptKeepsEnv ==
  /\ pc = "except"
  /\ ti' = NextPair.ti
  /\ ri' = NextPair.ri
  /\ pc' = NextPair.pc
  /\ Forget
  /\ camId' = 0
  /\ lastGrasp' = 0
  /\ ended' = FALSE
  /\ trialStart' = Len(file)
  /\ pendingReset' = FALSE
  /\ devDirty' = FALSE
  /\ slept' = 0
  /\ freshReset' = FALSE
  /\ last' = "Except"
  /\ UNCHANGED <<args, rng, tasks, robots, started, envVars, fileVars>>

\* A faulty variant of the handler: the aborted trial is logged as a failure.
ExceptLogsFailure ==
  /\ pc = "except"
  /\ envLive' = FALSE
  /\ envDim' = 0
  /\ opened' = opened - 1
  /\ robotModel' = <<>>
  /\ ti' = NextPair.ti
  /\ ri' = NextPair.ri
  /\ pc' = NextPair.pc
  /\ Forget
  /\ camId' = 0
  /\ lastGrasp' = 0
  /\ ended' = FALSE
  /\ file' = Append(file, [task |-> task, robot |-> robot])
  /\ trialStart' = Len(file')
  /\ pendingReset' = FALSE
  /\ devDirty' = FALSE
  /\ slept' = 0
  /\ freshReset' = FALSE
  /\ last' = "Except"
  /\ UNCHANGED <<args, rng, tasks, robots, started, fileExists>>

\* Lines 426-428 and the loop headers 218, 227: env.close(), continue with the
\* next robot, or the next task, or the end of the script.
Except ==
  /\ pc = "except"
  /\ envLive' = FALSE
  /\ envDim' = 0
  /\ opened' = opened - 1
  /\ robotModel' = <<>>
  /\ ti' = NextPair.ti
  /\ ri' = NextPair.ri
  /\ pc' = NextPair.pc
  /\ Forget
  /\ camId' = 0
  /\ lastGrasp' = 0
  /\ ended' = FALSE
  /\ trialStart' = Len(file)
  /\ pendingReset' = FALSE
  /\ devDirty' = FALSE
  /\ slept' = 0
  /\ freshReset' = FALSE
  /\ last' = "Except"
  /\ UNCHANGED <<args, rng, tasks, robots, started, fileVars>>

(* ----------------------------- tick actions ---------------------------- *)

\* Lines 317-326: input2action returns an action and a gripper intent.
SampleAction ==
  /\ pc = "sample"
  /\ grasp' \in GraspVals
  /\ action' = RawAction
  /\ errReported' = FALSE
  /\ pc' = "edge"
  /\ UNCHANGED freshReset
  /\ last' = "SampleAction"
  /\ UNCHANGED <<args, sessionVars, envVars, camId, lastGrasp, contacts, markers,
                 trialVars, fileVars>>

\* A faulty variant of the reset request: it is handled as a fault.
SampleResetAborts ==
  /\ pc = "sample"
  /\ pc' = "except"
  /\ last' = "SampleReset"
  /\ UNCHANGED <<args, sessionVars, envVars, tickVars, trialVars, fileVars>>

\* Lines 320-326: the device asks for a reset: action is None, break.
SampleReset ==
  /\ pc = "sample"
  /\ pc' = "reset"
  /\ last' = "SampleReset"
  /\ UNCHANGED <<args, sessionVars, envVars, tickVars, trialVars, fileVars>>

\* A faulty variant of the None test: the tick is given up as a fault.
OnNoneActionAborts == "except"

\* Lines 325-326 and 300-302: `if action is None: break` leaves the inner loop; the
\* outer loop goes on with env.reset().
OnNoneAction == "reset"

\* The device has lost its signal: input2action returns None for the action, as it
\* does for a reset request.
SampleSignalLoss ==
  /\ pc = "sample"
  /\ pc' = OnNoneAction
  /\ last' = "SampleSignalLoss"
  /\ UNCHANGED <<args, sessionVars, envVars, tickVars, trialVars, fileVars>>

\* Lines 317-322: env.robots[...] or input2action raises.
SampleFault ==
  /\ pc = "sample"
  /\ pc' = "except"
  /\ last' = "SampleFault"
  /\ UNCHANGED <<args, sessionVars, envVars, tickVars, trialVars, fileVars>>

\* Lines 330-338: on a grasp press switch the arm if asked, then read
\* args.toggle_camera_on_grasp, which raises AttributeError when the namespace has no
\* such attribute; last_grasp = grasp is reached only without an error.
GraspEdge ==
  /\ pc = "edge"
  /\ IF GraspPressed(lastGrasp, grasp)
       THEN /\ args' = IF args.switch_on_grasp
                         THEN [args EXCEPT !.arm = OtherArm(args.arm)]
                         ELSE args
            /\ IF HasAttr(args, "toggle_camera_on_grasp")
                 THEN /\ camId' = IF args["toggle_camera_on_grasp"]
                                    THEN (camId + 1) % NumCam
                                    ELSE camId
                      /\ lastGrasp' = grasp
                      /\ pc' = "assemble"
                 ELSE /\ UNCHANGED <<camId, lastGrasp>>
                      /\ pc' = "except"
       ELSE /\ lastGrasp' = grasp
            /\ pc' = "assemble"
            /\ UNCHANGED <<args, camId>>
  /\ UNCHANGED freshReset
  /\ last' = "GraspEdge"
  /\ UNCHANGED <<sessionVars, envVars, grasp, action, errReported, contacts, markers,
                 trialVars, fileVars>>

\* Lines 341-358: fill or trim the action; an unsupported arm prints an error and
\* leaves the action as it is.
Assemble ==
  /\ pc = "assemble"
  /\ action' = AssembleAction(action, envDim, args.arm)
  /\ errReported' = ArmUnsupported(action, envDim, args.arm)
  /\ pc' = "step"
  /\ freshReset' = FALSE
  /\ last' = "Assemble"
  /\ UNCHANGED <<args, sessionVars, envVars, camId, lastGrasp, grasp, contacts, markers,
                 trialVars, fileVars>>

\* Line 361: env.step(action) returns.
Step ==
  /\ pc = "step"
  /\ pc' = "scan"
  /\ last' = "Step"
  /\ UNCHANGED <<args, sessionVars, envVars, tickVars, trialVars, fileVars>>

\* Line 361: env.step(action) raises.
StepFault ==
  /\ pc = "step"
  /\ pc' = "except"
  /\ last' = "StepFault"
  /\ UNCHANGED <<args, sessionVars, envVars, tickVars, trialVars, fileVars>>

\* Lines 363-370: the current contact list is read and a 'contact' marker is added
\* for every flagged contact of it.
Scan ==
  /\ pc = "scan"
  /\ contacts' \in ContactLists
  /\ markers' = ScanContacts(contacts')
  /\ pc' = "check"
  /\ UNCHANGED freshReset
  /\ last' = "Scan"
  /\ UNCHANGED <<args, sessionVars, envVars, camId, lastGrasp, grasp, action,
                 errReported, trialVars, fileVars>>

\* Lines 364-370: the scan raises.
ScanFault ==
  /\ pc = "scan"
  /\ pc' = "except"
  /\ last' = "ScanFault"
  /\ UNCHANGED <<args, sessionVars, envVars, tickVars, trialVars, fileVars>>

\* A faulty variant of the training branch: the tick is logged as a trial.
CheckTrainLogs ==
  /\ pc = "check"
  /\ task = TrainTask
  /\ contacts' = <<>>
  /\ markers' = {}
  /\ pc' = "save"
  /\ UNCHANGED freshReset
  /\ last' = "CheckTrain"
  /\ UNCHANGED <<args, sessionVars, envVars, camId, lastGrasp, grasp, action,
                 errReported, trialVars, fileVars>>

\* Lines 408-412: the training task only draws its arrow.
CheckTrain ==
  /\ pc = "check"
  /\ task = TrainTask
  /\ contacts' = <<>>
  /\ markers' = {}
  /\ pc' = "render"
  /\ UNCHANGED freshReset
  /\ last' = "CheckTrain"
  /\ UNCHANGED <<args, sessionVars, envVars, camId, lastGrasp, grasp, action,
                 errReported, trialVars, fileVars>>

\* The scan's list and markers are not read after the scan: the statements that follow
\* it drop them.

\* Lines 373-375, 382-386, 388-390, 398-400: _check_success reports that the trial
\* goes on.
CheckRunning ==
  /\ pc = "check"
  /\ task \in StudyTasks
  /\ ended' = FALSE
  /\ contacts' = <<>>
  /\ markers' = {}
  /\ pc' = "render"
  /\ UNCHANGED freshReset
  /\ last' = "CheckRunning"
  /\ UNCHANGED <<args, sessionVars, envVars, camId, lastGrasp, grasp, action,
                 errReported, success, trialStart, pendingReset, devDirty, slept,
                 fileVars>>

\* Lines 373-375, 388-390, 398-400: _check_success reports trial_ended.
CheckEnded ==
  /\ pc = "check"
  /\ task \in StudyTasks
  /\ Len(DataRows(file)) < MaxRows
  /\ success' \in SuccessLevels(task)
  /\ ended' = TRUE
  /\ pendingReset' = TRUE
  /\ devDirty' = TRUE
  /\ contacts' = <<>>
  /\ markers' = {}
  /\ pc' = "afford"
  /\ UNCHANGED freshReset
  /\ last' = "CheckEnded"
  /\ UNCHANGED <<args, sessionVars, envVars, camId, lastGrasp, grasp, action,
                 errReported, trialStart, slept, fileVars>>

\* Lines 374, 389, 399, 409-412: _check_success, or the training arrow, raises.
CheckFault ==
  /\ pc = "check"
  /\ contacts' = <<>>
  /\ markers' = {}
  /\ pc' = "except"
  /\ UNCHANGED freshReset
  /\ last' = "CheckFault"
  /\ UNCHANGED <<args, sessionVars, envVars, camId, lastGrasp, grasp, action,
                 errReported, trialVars, fileVars>>

\* Lines 376-377, 391-392, 401-402: the success marker of an ended trial.
Afford ==
  /\ pc = "afford"
  /\ pc' = "save"
  /\ last' = "Afford"
  /\ UNCHANGED <<args, sessionVars, envVars, tickVars, trialVars, fileVars>>

\* A faulty variant of save_data: the row is written twice.
SaveTwice ==
  /\ pc = "save"
  /\ file' = Append(Append(file, [task |-> task, robot |-> robot]),
                    [task |-> task, robot |-> robot])
  /\ pc' = "final_render"
  /\ last' = "Save"
  /\ UNCHANGED <<args, sessionVars, envVars, tickVars, ended, success, trialStart,
                 pendingReset, devDirty, slept, fileExists>>

\* Lines 378, 393, 403 and save_data: one row appended to the file.
Save ==
  /\ pc = "save"
  /\ file' = Append(file, [task |-> task, robot |-> robot])
  /\ pc' = "final_render"
  /\ last' = "Save"
  /\ UNCHANGED <<args, sessionVars, envVars, tickVars, ended, success, trialStart,
                 pendingReset, devDirty, slept, fileExists>>

\* A faulty variant of the final frame: the device is reset without the dwell.
FinalRenderSkipsDwell ==
  /\ pc = "final_render"
  /\ pc' = "dev_reset"
  /\ last' = "FinalRender"
  /\ UNCHANGED <<args, sessionVars, envVars, tickVars, trialVars, fileVars>>

\* Lines 379, 394, 404: env.render() of the final frame.
FinalRender ==
  /\ pc = "final_render"
  /\ pc' = "dwell"
  /\ last' = "FinalRender"
  /\ UNCHANGED <<args, sessionVars, envVars, tickVars, trialVars, fileVars>>

\* Lines 380, 395, 405: time.sleep(3).
Dwell ==
  /\ pc = "dwell"
  /\ slept' = slept + DwellSeconds
  /\ pc' = "dev_reset"
  /\ last' = "Dwell"
  /\ UNCHANGED <<args, sessionVars, envVars, tickVars, ended, success, trialStart,
                 pendingReset, devDirty, fileVars>>

\* Lines 381, 396, 406: device._reset_internal_state().
DevReset ==
  /\ pc = "dev_reset"
  /\ devDirty' = FALSE
  /\ pc' = "render"
  /\ last' = "DevReset"
  /\ UNCHANGED <<args, sessionVars, envVars, tickVars, ended, success, trialStart,
                 pendingReset, slept, fileVars>>

\* Line 425: env.render() ends the tick; the inner loop samples the device next.
\* After an ended trial the next tick belongs to the next trial.
Render ==
  /\ pc = "render"
  /\ ended' = FALSE
  /\ trialStart' = IF ended THEN Len(file) ELSE trialStart
  /\ slept' = 0
  /\ Forget
  /\ pc' = "sample"
  /\ UNCHANGED freshReset
  /\ last' = "Render"
  /\ UNCHANGED <<args, sessionVars, envVars, camId, lastGrasp, pendingReset, devDirty,
                 fileVars>>

Next ==
  \/ PromptTask
  \/ PromptExit
  \/ PromptRobot
  \/ Make
  \/ EnvReset
  \/ StartControl
  \/ SampleAction
  \/ SampleReset
  \/ SampleSignalLoss
  \/ SampleFault
  \/ GraspEdge
  \/ Assemble
  \/ Step
  \/ StepFault
  \/ Scan
  \/ ScanFault
  \/ CheckTrain
  \/ CheckRunning
  \/ CheckEnded
  \/ CheckFault
  \/ Afford
  \/ Save
  \/ FinalRender
  \/ Dwell
  \/ DevReset
  \/ Render
  \/ Except

Spec == Init /\ [][Next]_vars

(* ------------------------------ properties ----------------------------- *)

\* The statements of a tick that are modelled as raising.
FaultNames == {"SampleFault", "StepFault", "ScanFault", "CheckFault"}

\* C1: whenever env.step is about to be called, the action has exactly
\* env.action_dim entries.
C1_StepActionHasEnvDim == pc = "step" => Len(action) = envDim

\* C2: in a tick that printed the "Unsupported arm" error, env.step is not called.
C2_ArmErrorSkipsStep == errReported => last # "Step"

\* C3: a trial of a study task that the success predicate ended has exactly one row
\* in the file once save_data has run, and a trial the predicate has not ended has
\* none.
C3_OneRowPerEndedTrial ==
  (envLive /\ task \in StudyTasks) =>
    /\ (ended /\ pc \in {"final_render", "dwell", "dev_reset", "render"}) => TrialRows = 1
    /\ (ended /\ pc \in {"afford", "save"}) => TrialRows = 0
    /\ ~ended => TrialRows = 0

\* C3 witness: the second ended trial of a session has written its one row.
C3_Witness ==
  /\ pc = "render"
  /\ ended
  /\ TrialRows = 1
  /\ Len(DataRows(file)) = 2

\* C4: when the device is sampled, no ended trial is left without both a device
\* reset and an env.reset() after it.
C4_ResetBeforeNextSample == pc = "sample" => (~pendingReset /\ ~devDirty)

\* C5: a statement of a tick that raises is caught by the handler; the handler closes
\* the environment and goes on with the next (task, robot) pair, or ends the script
\* after the last pair; the script exits only at a prompt.
C5_FaultMovesToNextPair ==
  [][/\ last' \in FaultNames => pc' = "except"
     /\ (pc = "edge" /\ pc' # "assemble") => pc' = "except"
     /\ pc = "except" =>
          /\ ~envLive'
          /\ pc' \in {"prompt_robot", "prompt_task", "done"}
          /\ pc' = "prompt_robot" => (ti' = ti /\ ri' = ri + 1)
          /\ pc' = "prompt_task" => (ti' = ti + 1 /\ ri = Len(robots))
          /\ pc' = "done" => (ti = Len(tasks) /\ ri = Len(robots))
     /\ pc' = "exited" => last' = "PromptExit"]_vars

\* C5 witness: a fault of the first robot's trial was handled and the second robot's
\* prompt is next, with no environment open.
C5_Witness ==
  /\ last = "Except"
  /\ ~envLive
  /\ pc = "prompt_robot"
  /\ ri = 2

C7_ResetRequestRestartsSamePair ==
  [][/\ last' = "SampleReset" =>
          /\ pc' = "reset"
          /\ file' = file
          /\ <<ti', ri', envLive'>> = <<ti, ri, TRUE>>
     /\ pc = "reset" =>
          /\ last' = "EnvReset"
          /\ pc' = "start_control"
          /\ <<ti', ri', envLive', file'>> = <<ti, ri, TRUE, file>>
     /\ pc = "start_control" =>
          /\ last' = "StartControl"
          /\ pc' = "sample"
          /\ <<ti', ri', envLive', file'>> = <<ti, ri, TRUE, file>>]_vars

\* C7 witness: a reset request in a study task, with env.reset() next.
C7_Witness ==
  /\ last = "SampleReset"
  /\ pc = "reset"
  /\ envLive
  /\ task \in StudyTasks

\* C8, as stated: with switch_on_grasp the arm changes exactly when the previous
\* intent is not positive and the current one is positive.
C8_FlipFromNonPositive ==
  [][(pc = "edge" /\ args.switch_on_grasp) =>
       ((args'.arm # args.arm) <=> (lastGrasp <= 0 /\ grasp > 0))]_vars

\* C8, amended: with switch_on_grasp the arm changes exactly when the previous intent
\* (0 after a reset) is negative and the current one is positive.
C8_FlipFromNegative ==
  [][(pc = "edge" /\ args.switch_on_grasp) =>
       /\ (args'.arm # args.arm) <=> (lastGrasp < 0 /\ grasp > 0)
       /\ (args'.arm # args.arm) => args'.arm = (IF args.arm = "right" THEN "left"
                                                                      ELSE "right")]_vars

\* C8 witness: a press (intent -1, then 1) with switch_on_grasp has been handled.
C8_Witness ==
  /\ last = "GraspEdge"
  /\ args.switch_on_grasp
  /\ lastGrasp = -1
  /\ grasp = 1
  /\ args.arm = "left"

\* C9: the grasp-edge statements always hand the tick on to the assembly of the
\* action, whatever the flags are.
C9_EdgeTickContinues == [][pc = "edge" => pc' = "assemble"]_vars

\* C10: after the scan, a contact has a marker exactly when one of its two geoms is
\* in links2check and the other is not.
C10_MarkerIffExactlyOne ==
  pc = "check" =>
    /\ markers \subseteq 1..Len(contacts)
    /\ \A i \in 1..Len(contacts) :
         (i \in markers) <=>
           ((contacts[i][1] \in links2check) # (contacts[i][2] \in links2check))

\* C10 witness: a scanned contact between the hand and the table has a marker.
C10_Witness ==
  /\ pc = "check"
  /\ Len(contacts) >= 1
  /\ contacts[1] = <<"gripper0_hand_collision", "table_collision">>
  /\ 1 \in markers

\* C11: when env.action_dim exceeds the raw action's size, the action handed to
\* env.step is the raw action followed by the missing zeros for arm "right", and the
\* missing zeros followed by the raw action for arm "left".
C11_PadOnPassiveSide ==
  (pc = "step" /\ envDim > RawSize) =>
    LET rem == envDim - RawSize IN
    /\ args.arm = "right" =>
         /\ Len(action) = envDim
         /\ \A i \in 1..RawSize : action[i] = RawAction[i]
         /\ \A i \in (RawSize + 1)..envDim : action[i] = 0
    /\ args.arm = "left" =>
         /\ Len(action) = envDim
         /\ \A i \in 1..rem : action[i] = 0
         /\ \A i \in 1..RawSize : action[rem + i] = RawAction[i]

\* C11 witness: a padded action for the left arm is about to be stepped.
C11_Witness ==
  /\ pc = "step"
  /\ args.arm = "left"
  /\ envDim = RawSize + 1
  /\ Len(action) = envDim
  /\ action[1] = 0
  /\ action[envDim] = RawAction[RawSize]

\* C12: when env.action_dim does not exceed the raw action's size, the action handed
\* to env.step is the first env.action_dim entries of the raw action, for any arm.
C12_TrimToEnvDim ==
  (pc = "step" /\ envDim <= RawSize) =>
    /\ Len(action) = envDim
    /\ \A i \in 1..envDim : action[i] = RawAction[i]

\* C12 witness: a trimmed action is about to be stepped, with an unsupported arm.
C12_Witness ==
  /\ pc = "step"
  /\ envDim < RawSize
  /\ Len(action) = envDim
  /\ args.arm = "bimanual"

\* C13: the task order is "Train" followed by the three study tasks, each once; the
\* robot order of a task is the three robots, each once; an environment is made for a
\* (task, robot) pair only if none was made for that pair before.
C13_EachPairStartedOnce ==
  [][/\ Len(tasks') = 1 + Len(TaskList)
     /\ tasks'[1] = "Train"
     /\ {tasks'[i] : i \in 2..Len(tasks')} = {"ConstrainedReorient", "Bookshelf", "DrawerPick"}
     /\ Len(robots') = 3
     /\ {robots'[i] : i \in 1..3} = {"Panda", "PandaWrist", "PandaSSLIM"}
     /\ pc = "make" => <<tasks[ti], robots[ri]>> \notin started
     /\ started \subseteq started'
     /\ ti' >= ti]_vars

\* C13 witness: the three pairs of the training task were started, and the first pair
\* of the next task has its environment.
C13_Witness ==
  /\ last = "Make"
  /\ ti = 2
  /\ ri = 1
  /\ Cardinality(started) = 4

\* C14: an environment is made only right after the robot prompt of its (task, robot)
\* pair was acknowledged, and env.step is called only in an environment made so.
C14_PromptBeforeMake ==
  [][/\ (~envLive /\ envLive') =>
          /\ last = "PromptRobot"
          /\ last' = "Make"
          /\ <<ti', ri'>> = <<ti, ri>>
     /\ last' = "PromptRobot" => (pc = "prompt_robot" /\ <<ti', ri'>> = <<ti, ri>>)
     /\ last' = "Step" => (envLive /\ <<tasks[ti], robots[ri]>> \in started)]_vars

\* C14 witness: the second robot of a task is stepped.
C14_Witness ==
  /\ last = "Step"
  /\ ri = 2
  /\ envLive

\* C15: Escape or a closed window at a prompt ends the script with no environment
\* open and the file as it was, and nothing happens after the exit.
C15_ExitEndsSession ==
  [][/\ pc # "exited"
     /\ last' = "PromptExit" =>
          /\ pc' = "exited"
          /\ file' = file
          /\ started' = started
          /\ opened' = 0]_vars

\* C15 witness: the script has exited at a prompt after a trial was logged.
C15_Witness ==
  /\ pc = "exited"
  /\ last = "PromptExit"
  /\ Len(DataRows(file)) = 1

\* C16: at most one environment is open at any time, and none when the next one is
\* about to be made.
C16_OneLiveEnvironment ==
  /\ opened <= 1
  /\ pc = "make" => opened = 0
  /\ envLive <=> opened = 1

\* C16 witness: the environment of a second pair is open, alone.
C16_Witness ==
  /\ last = "Make"
  /\ ri = 2
  /\ opened = 1

\* C17: the file changes only by one row appended at its end; the header row is
\* appended only by the set-up when the file does not exist, every other row by
\* save_data; no header row follows another row.
C17_HeaderOnceThenAppends ==
  [][/\ file' # file =>
          /\ Len(file') = Len(file) + 1
          /\ SubSeq(file', 1, Len(file)) = file
          /\ IF file'[Len(file')] = HeaderRow
               THEN ~fileExists /\ file = <<>> /\ last' = "Make"
               ELSE last' = "Save"
     /\ \A i \in 2..Len(file') : file'[i] # HeaderRow]_vars

\* C17 witness: a file the session created holds the header and two trial rows.
C17_Witness ==
  /\ last = "Save"
  /\ Len(file) = 3
  /\ file[1] = HeaderRow
  /\ file[2] # HeaderRow

C19_WristVectorsSameLength ==
  [][/\ \A i \in 1..Len(robotModel') :
          Len(robotModel'[i].damping) = Len(robotModel'[i].init_qpos)
     /\ (last' = "Make" /\ robots[ri] = "PandaWrist") => Len(robotModel') = 1
     /\ (envLive /\ envLive') => robotModel' = robotModel]_vars

\* C19 witness: an environment with the PandaWrist robot is stepped.
C19_Witness ==
  /\ last = "Step"
  /\ robots[ri] = "PandaWrist"
  /\ Len(robotModel) = 1
  /\ Len(robotModel[1].damping) = 9

\* C20: in a tick that ends a trial the success marker, save_data, the render of the
\* final frame, the sleep of 3 seconds and the device reset follow one another in
\* this order; the row is in the file when the sleep starts, and the device is reset
\* only after the sleep.
C20_TerminalTickOrder ==
  [][/\ last' = "Afford" => last = "CheckEnded"
     /\ last' = "Save" => (last = "Afford" /\ TrialRows = 0)
     /\ last' = "FinalRender" => (last = "Save" /\ TrialRows = 1)
     /\ last' = "Dwell" =>
          /\ last = "FinalRender"
          /\ TrialRows = 1
          /\ slept = 0
          /\ slept' = 3
          /\ devDirty'
     /\ last' = "DevReset" =>
          /\ last = "Dwell"
          /\ slept = 3
          /\ TrialRows = 1
          /\ ~devDirty'
     /\ last = "CheckEnded" => last' = "Afford"]_vars

\* C20 witness: the device was reset after the sleep that followed the row.
C20_Witness ==
  /\ last = "DevReset"
  /\ slept = 3
  /\ TrialRows = 1
  /\ ~devDirty

\* C21: in the training task no success check runs, no trial row is written, and
\* there is no sleep and no device reset of an ended trial.
C21_TrainNeverLogs ==
  [][tasks[ti] = "Train" =>
       /\ DataRows(file') = DataRows(file)
       /\ last' \notin {"CheckRunning", "CheckEnded", "Afford", "Save", "FinalRender",
                        "Dwell", "DevReset"}
       /\ ~ended'
       /\ slept' = 0
       /\ ~devDirty']_vars

\* C21 witness: a tick of the second robot of the training task has drawn its arrow,
\* and the file holds no trial row.
C21_Witness ==
  /\ last = "CheckTrain"
  /\ tasks[ti] = "Train"
  /\ ri = 2
  /\ DataRows(file) = <<>>

\* C22: args.arm changes only in the grasp-edge statements, on a press, with
\* switch_on_grasp set; switch_on_grasp itself never changes.
C22_ArmChangesOnlyOnEdge ==
  [][/\ args'.arm # args.arm =>
          /\ last' = "GraspEdge"
          /\ args.switch_on_grasp
          /\ lastGrasp < 0
          /\ grasp > 0
     /\ last' \in {"EnvReset", "SampleReset", "SampleSignalLoss", "Except", "Make",
                   "PromptTask", "PromptRobot", "Save", "DevReset", "Render"}
          => args'.arm = args.arm
     /\ args'.switch_on_grasp = args.switch_on_grasp]_vars

\* C22 witness: with switch_on_grasp set, the environment of a second robot is reset
\* while the arm is "left".
C22_Witness ==
  /\ last = "EnvReset"
  /\ ri = 2
  /\ args.switch_on_grasp
  /\ args.arm = "left"

\* C23: env.reset() is followed by cam_id = 0 and last_grasp = 0, and the grasp-edge
\* statements of the first tick after it change neither the arm nor the camera and
\* hand the tick on.
C23_NoEdgeOnFirstTick ==
  [][/\ last' = "EnvReset" => (lastGrasp' = 0 /\ camId' = 0)
     /\ (pc = "edge" /\ freshReset) =>
          /\ args'.arm = args.arm
          /\ camId' = camId
          /\ pc' = "assemble"]_vars

\* C23 witness: the first tick after a reset had a positive intent and went on to
\* the assembly of its action.
C23_Witness ==
  /\ last = "GraspEdge"
  /\ freshReset
  /\ grasp = 1
  /\ pc = "assemble"

====
